---- MODULE Spec2Model ----
(***************************************************************************)
(* Model of get-secret-key/"to forge key"/get_secret_key.py: the key       *)
(* generators, the countdown thread, the wipe and the main flow, with the  *)
(* operator's interrupt (SIGINT) as the only asynchronous input.           *)
(* Python strings are modelled as sequences of one-character strings.      *)
(***************************************************************************)
EXTENDS Integers, Sequences, FiniteSets, TLC

\* ------------------------------------------------------------------ bounds
\* SIGINTs the operator may deliver during one run.
MaxInterrupts == 2
\* Number of outcomes of the random source that are enumerated.
StreamCount == 2
\* Largest length / word count a generator is called with on its own.
MaxKeyLen == 6
\* Random-source outcomes enumerated for a generator called on its own.
CallStreamCount == 8
\* Calls of generate_hmac_key made in a row.
MaxHmacCalls == 3
\* Lines read from the terminal during one call of get_integer_input.
MaxReads == 6

\* ------------------------------------------------------- program constants
max_attempts == 3
DefaultSeconds == 20
MaxSeconds == 60
\* the default of max_attempts in get_integer_input and in save_to_file
gi_max_attempts == 3
sf_max_attempts == 3

\* ------------------------------------------------------------ characters
UpperChars == <<"A","B","C","D","E","F","G","H","I","J","K","L","M","N","O","P","Q","R","S","T","U","V","W","X","Y","Z">>
LowerChars == <<"a","b","c","d","e","f","g","h","i","j","k","l","m","n","o","p","q","r","s","t","u","v","w","x","y","z">>
DigitChars == <<"0","1","2","3","4","5","6","7","8","9">>
HexLower == <<"0","1","2","3","4","5","6","7","8","9","a","b","c","d","e","f">>
Whitespace == {" ", "\t"}

\* string.ascii_uppercase + string.digits + string.ascii_lowercase
characters == UpperChars \o DigitChars \o LowerChars
\* the URL-safe Base64 alphabet
B64Alphabet == UpperChars \o LowerChars \o DigitChars \o <<"-","_">>

WORDLIST ==
  << <<"a","l","p","h","a">>, <<"b","e","t","a">>, <<"g","a","m","m","a">>,
     <<"l","a","n","a">>, <<"d","e","l","t","a">>, <<"e","p","s","i","l","o","n">>,
     <<"z","e","b","r","a">>, <<"t","i","g","e","r">>, <<"m","o","o","n">>,
     <<"g","a","l","a","x","y">>, <<"o","c","e","a","n">>, <<"a","r","c","h","e","r">> >>

\* ------------------------------------------- function-level variables
\* A key generator called on its own.
VARIABLES
  g_pc,            \* "idle", "called", "returned" or "raised"
  g_kind,          \* which generator, 1..8 as in key_generators
  g_arg,           \* its length / num_words argument
  g_secret,        \* the secret argument of generate_hmac_key
  g_stream,        \* the outcome of the random source
  g_value,         \* the string returned
  g_error,         \* the exception raised, "none" if none
  g_secure_draws,  \* values drawn from secrets / os.urandom
  g_prng_draws     \* values drawn from the random module

\* generate_hmac_key called several times in a row.
VARIABLES
  h_calls          \* one record per call: the secret given, the output

\* get_integer_input called on its own.  An optional argument is <<>> for
\* None and << v >> for the integer v.
VARIABLES
  gi_pc,           \* "idle", "prompt", "confirm", "returned", "fell_through", "exited"
  gi_min,          \* min_value
  gi_max,          \* max_value
  gi_warn,         \* warning_threshold
  gi_attempts,     \* the local attempts
  gi_value,        \* the local value once it is an accepted integer
  gi_status,       \* the status of sys.exit, NoStatus before
  gi_invalid,      \* entries rejected: empty, non-integer, below min, above max
  gi_errors,       \* exceptions caught by "except Exception"
  gi_refused,      \* entries the operator refused at "Continue? (y/n)"
  gi_reads         \* calls of input() so far

\* save_to_file called on its own.
VARIABLES
  sf_pc,           \* "idle", "prompt", "confirm", "returned", "raised", "exited"
  sf_attempts,     \* the local attempts
  sf_filename,     \* the local filename
  sf_files,        \* path -> "absent", "old", "partial" or "content"
  sf_dirs,         \* the directories that exist
  sf_result,       \* "none", "True" or "False"
  sf_status,       \* the status of sys.exit, NoStatus before
  sf_error,        \* the last exception raised, "none" if none
  sf_declined      \* overwrite confirmations the operator declined

genVars == << g_pc, g_kind, g_arg, g_secret, g_stream, g_value, g_error,
              g_secure_draws, g_prng_draws >>
intVars == << gi_pc, gi_min, gi_max, gi_warn, gi_attempts, gi_value, gi_status,
              gi_invalid, gi_errors, gi_refused, gi_reads >>
saveVars == << sf_pc, sf_attempts, sf_filename, sf_files, sf_dirs, sf_result,
               sf_status, sf_error, sf_declined >>

\* --------------------------------------------------------- random source
\* One outcome of the random source is a stream of raw values; draw i of a
\* generator reads position i.  Every value below the bound is possible in
\* the program; the model enumerates StreamCount streams.
RandStreams == 0 .. (StreamCount - 1)
Raw(s, i) == (s * 131 + i * 37 + s * i * 7) % 256
\* secrets.randbelow(n) / secrets.choice / random.choice index
RandBelow(s, i, n) == Raw(s, i) % n
\* secrets.token_bytes(n)
token_bytes(s, n) == [i \in 1..n |-> Raw(s, i)]

\* ------------------------------------------------------- string helpers
RECURSIVE Concat(_)
Concat(ss) == IF ss = <<>> THEN <<>> ELSE Head(ss) \o Concat(Tail(ss))

RECURSIVE Join(_, _)
\* sep.join(parts)
Join(sep, parts) ==
  IF parts = <<>> THEN <<>>
  ELSE IF Len(parts) = 1 THEN Head(parts)
  ELSE Head(parts) \o sep \o Join(sep, Tail(parts))

IndexOf(seq, c) == CHOOSE i \in 1..Len(seq) : seq[i] = c
InSeq(seq, c) == \E i \in 1..Len(seq) : seq[i] = c

\* str.upper() on one character
UpperChar(c) == IF InSeq(LowerChars, c) THEN UpperChars[IndexOf(LowerChars, c)] ELSE c
Upper(str) == [i \in 1..Len(str) |-> UpperChar(str[i])]

\* str.replace(ch, "")
RemoveChar(str, ch) == SelectSeq(str, LAMBDA c : c # ch)

\* bytes.hex(): two lower-case hex characters per byte
HexOfBytes(bs) ==
  [i \in 1..(2 * Len(bs)) |->
     IF i % 2 = 1 THEN HexLower[(bs[(i + 1) \div 2] \div 16) + 1]
                  ELSE HexLower[(bs[i \div 2] % 16) + 1]]

\* '*' * n
Stars(n) == [i \in 1..n |-> "*"]

\* ------------------------------------------------------------ generators
\* the alphabet with punctuation added
generate_random_key_punct(s, length) ==
  [i \in 1..length |->
     (characters \o << "!", "#", "$" >>)[RandBelow(s, i, Len(characters) + 3) + 1]]

generate_random_key(s, length) ==
  [i \in 1..length |-> characters[RandBelow(s, i, Len(characters)) + 1]]

\* uuid.uuid4(): 16 random bytes with the version nibble forced to 4 and the
\* two top bits of byte 9 forced to 10.
Uuid4Bytes(s) ==
  [i \in 1..16 |->
     IF i = 7 THEN 64 + (Raw(s, i) % 16)
     ELSE IF i = 9 THEN 128 + (Raw(s, i) % 64)
     ELSE Raw(s, i)]
\* str(uuid): 8-4-4-4-12 lower-case hex digits separated by hyphens
UuidStr(bs) ==
  LET h == HexOfBytes(bs)
  IN  SubSeq(h, 1, 8) \o <<"-">> \o SubSeq(h, 9, 12) \o <<"-">> \o SubSeq(h, 13, 16)
        \o <<"-">> \o SubSeq(h, 17, 20) \o <<"-">> \o SubSeq(h, 21, 32)
generate_uuid_key(s) == Upper(RemoveChar(UuidStr(Uuid4Bytes(s)), "-"))

\* length taken as the byte count
generate_hex_key_bytes(s, length) == HexOfBytes(token_bytes(s, length))

generate_hex_key(s, length) == HexOfBytes(token_bytes(s, length \div 2))

RECURSIVE Sha256Mix(_, _, _, _)
Sha256Mix(bs, i, lo, hi) ==
  IF lo > hi THEN 0
  ELSE IF lo = hi THEN (bs[lo] * (2 * ((i + lo) % 64) + 1)) % 256
  ELSE LET mid == (lo + hi) \div 2
       IN  (Sha256Mix(bs, i, lo, mid) + Sha256Mix(bs, i, mid + 1, hi)) % 256
\* hashlib.sha256(x).digest(): the compression function is not modelled; the
\* digest is 32 bytes determined by every byte of the input and its length.
Sha256Digest(bs) ==
  [i \in 1..32 |-> (Sha256Mix(bs, i, 1, Len(bs)) + i * 29 + Len(bs)) % 256]
generate_sha256_key(s) == HexOfBytes(Sha256Digest(token_bytes(s, 32)))

\* base64.urlsafe_b64encode
B64Byte(bs, i) == IF i <= Len(bs) THEN bs[i] ELSE 0
B64Group(bs, g) ==
  B64Byte(bs, 3 * g + 1) * 65536 + B64Byte(bs, 3 * g + 2) * 256 + B64Byte(bs, 3 * g + 3)
B64Sextet(bs, g, k) ==
  CASE k = 0 -> B64Group(bs, g) \div 262144
    [] k = 1 -> (B64Group(bs, g) \div 4096) % 64
    [] k = 2 -> (B64Group(bs, g) \div 64) % 64
    [] OTHER -> B64Group(bs, g) % 64
urlsafe_b64encode(bs) ==
  [p \in 1..(4 * ((Len(bs) + 2) \div 3)) |->
     LET g == (p - 1) \div 4
         k == (p - 1) % 4
     IN  IF k >= 2 /\ 3 * g + k > Len(bs) THEN "="
         ELSE B64Alphabet[B64Sextet(bs, g, k) + 1]]
generate_base64_key(s, length) == urlsafe_b64encode(token_bytes(s, length))

generate_numeric_key(s, length) ==
  [i \in 1..length |-> DigitChars[RandBelow(s, i, 10) + 1]]

generate_passphrase(s, num_words) ==
  Join(<<" ">>, [i \in 1..num_words |-> WORDLIST[RandBelow(s, i, Len(WORDLIST)) + 1]])

\* U+0000, written by name
NulChar == "\\0"
\* str.encode(): the UTF-8 byte of an ASCII character
CharCode(c) ==
  IF c = NulChar THEN 0
  ELSE IF InSeq(LowerChars, c) THEN 96 + IndexOf(LowerChars, c)
  ELSE IF InSeq(UpperChars, c) THEN 64 + IndexOf(UpperChars, c)
  ELSE IF InSeq(DigitChars, c) THEN 47 + IndexOf(DigitChars, c)
  ELSE IF c = "_" THEN 95
  ELSE IF c = " " THEN 32
  ELSE 63
Encode(str) == [i \in 1..Len(str) |-> CharCode(str[i])]

RECURSIVE BitXor(_, _, _)
BitXor(a, b, n) ==
  IF n = 0 THEN 0
  ELSE (((a % 2) + (b % 2)) % 2) + 2 * BitXor(a \div 2, b \div 2, n - 1)
\* HMAC (RFC 2104) over SHA-256, block size 64: a key longer than the block
\* is hashed, then the key is padded with zero bytes to the block size.
HmacBlockKey(k) ==
  LET k0 == IF Len(k) > 64 THEN Sha256Digest(k) ELSE k
  IN  [i \in 1..64 |-> IF i <= Len(k0) THEN k0[i] ELSE 0]
HmacPad(k, pad) == [i \in 1..64 |-> BitXor(HmacBlockKey(k)[i], pad, 8)]
HmacSha256(k, msg) ==
  Sha256Digest(HmacPad(k, 92) \o Sha256Digest(HmacPad(k, 54) \o msg))

\* b"secure_data"
SecureData == << 115, 101, 99, 117, 114, 101, 95, 100, 97, 116, 97 >>
\* the default of the parameter secret
DefaultHmacSecret == << "m", "y", "_", "s", "e", "c", "r", "e", "t" >>

\* the message authenticated is a counter of the calls made so far
generate_hmac_key_counting(secret) ==
  HexOfBytes(HmacSha256(Encode(secret), << Len(h_calls) >>))

generate_hmac_key(secret) ==
  HexOfBytes(HmacSha256(Encode(secret), SecureData))

\* key_generators[choice](): every generator is called with its defaults
key_generators(choice, s) ==
  CASE choice = 1 -> generate_random_key(s, 32)
    [] choice = 2 -> generate_uuid_key(s)
    [] choice = 3 -> generate_hex_key(s, 32)
    [] choice = 4 -> generate_sha256_key(s)
    [] choice = 5 -> generate_base64_key(s, 32)
    [] choice = 6 -> generate_numeric_key(s, 6)
    [] choice = 7 -> generate_passphrase(s, 4)
    [] OTHER -> generate_hmac_key(DefaultHmacSecret)

\* --------------------------------------------------------- input parsing
RECURSIVE LStrip(_)
LStrip(str) ==
  IF str # <<>> /\ Head(str) \in Whitespace THEN LStrip(Tail(str)) ELSE str
RECURSIVE RStrip(_)
RStrip(str) ==
  IF str # <<>> /\ str[Len(str)] \in Whitespace
  THEN RStrip(SubSeq(str, 1, Len(str) - 1)) ELSE str
\* str.strip()
Strip(str) == RStrip(LStrip(str))

\* U+00B2 SUPERSCRIPT TWO, written by name: a character of category No, for
\* which str.isdigit() is true and which int() does not accept.
SuperscriptTwo == "^2"

\* str.isdigit(): non-empty and every character a digit
IsDigit(str) ==
  str # <<>> /\ \A i \in 1..Len(str) :
                  InSeq(DigitChars, str[i]) \/ str[i] = SuperscriptTwo

\* the digit strings int() accepts: non-empty, decimal digits only
IsDecimal(str) == str # <<>> /\ \A i \in 1..Len(str) : InSeq(DigitChars, str[i])

RECURSIVE ParseDigits(_)
\* int() of a string of decimal digits
ParseDigits(str) ==
  IF str = <<>> THEN 0
  ELSE 10 * ParseDigits(SubSeq(str, 1, Len(str) - 1))
         + (IndexOf(DigitChars, str[Len(str)]) - 1)

\* int(str): surrounding whitespace and one sign are accepted; anything else
\* raises ValueError (ok = FALSE).
IntParse(str) ==
  LET t == Strip(str)
      signed == t # <<>> /\ Head(t) \in {"-", "+"}
      body == IF signed THEN Tail(t) ELSE t
  IN  IF IsDecimal(body)
      THEN [ok |-> TRUE,
            value |-> IF signed /\ Head(t) = "-" THEN 0 - ParseDigits(body)
                      ELSE ParseDigits(body)]
      ELSE [ok |-> FALSE, value |-> 0]

\* What the operator may type at the menu prompt.
MenuInputs ==
  { <<"1">>, <<"2">>, <<"3">>, <<"4">>, <<"5">>, <<"6">>, <<"7">>, <<"8">>,
    <<"0">>, <<"9">>, <<"1","0">>, <<"x">>, <<>>, <<" ","3"," ">>, <<"-","1">>,
    << SuperscriptTwo >> }
\* What the operator may type at the duration prompt.
DurationInputs ==
  { <<>>, <<"0">>, <<"1">>, <<"2">>, <<"3">>, <<"6","0">>, <<"6","1">>,
    <<"5","0","0">>, <<"-","1">>, <<"a">>, <<" ">>, <<" ","2"," ">>,
    <<"1",".","5">>, << SuperscriptTwo >> }

\* the clamp with its lower branch raising the value to 1 instead of
\* falling back to the default
ResolveSecondsFloor(typed) ==
  IF typed = <<>> THEN DefaultSeconds
  ELSE LET r == IntParse(typed)
       IN  IF ~r.ok THEN DefaultSeconds
           ELSE IF r.value < 1 THEN 1
           ELSE IF r.value > MaxSeconds THEN MaxSeconds
           ELSE r.value

\* seconds as lines 128-138 resolve it from the typed line
ResolveSeconds(typed) ==
  IF typed = <<>> THEN DefaultSeconds          \* input(...) or 20
  ELSE LET r == IntParse(typed)
       IN  IF ~r.ok THEN DefaultSeconds        \* except ValueError
           ELSE IF r.value < 1 THEN DefaultSeconds
           ELSE IF r.value > MaxSeconds THEN MaxSeconds
           ELSE r.value

\* ------------------------------------------------------------------ heap
\* Python names bind to objects; a str object is immutable.  heap is the
\* sequence of allocated objects, a name holds an object's index, or Unbound.
Unbound == 0
Freed == << "<freed>" >>
\* deallocation of every object no name in roots is bound to
Reclaim(h, roots) == [o \in DOMAIN h |-> IF o \in roots THEN h[o] ELSE Freed]
Deref(h, ref) == IF ref = Unbound THEN Freed ELSE h[ref]

\* ----------------------------------------------------------------- state
VARIABLES
  pc,            \* position of the main thread in main()
  attempts,      \* main: invalid menu entries so far
  choice,        \* main: accepted menu choice, 0 before
  seconds,       \* main: resolved display duration, 0 before
  key,           \* main: the name `key`
  key_ref,       \* wipe_key_from_memory: the parameter `key_ref`
  heap,          \* the str objects allocated
  secret,        \* the value key_generators[choice]() returned
  displayed,     \* the key has been printed (line 155)
  cleared,       \* the terminal has been cleared (lines 169-172)
  tpc,           \* position of the timer thread in countdown_timer
  iter,          \* countdown_timer: next value of range(seconds, 0, -1)
  remaining,     \* countdown_timer: the loop variable
  ticks,         \* the remaining values written to stdout (line 80)
  slept,         \* one-second sleeps completed (line 82)
  expired,       \* "Time expired!" has been written (line 83)
  interrupts,    \* SIGINTs delivered
  exit_status,   \* process exit status: the argument of sys.exit, 1 for an
                 \* uncaught exception, NoStatus while running or on SIGINT
  exception,     \* the exception that ended main(), "none" before
  wipe_calls,    \* calls of wipe_key_from_memory made
  wipe_returns,  \* calls of wipe_key_from_memory returned
  line,          \* main: the last line input() returned
  gen_calls      \* calls of a key generator made (line 151)

vars == << pc, attempts, choice, seconds, key, key_ref, heap, secret, displayed,
           cleared, tpc, iter, remaining, ticks, slept, expired, interrupts,
           exit_status, exception, wipe_calls, wipe_returns, line, gen_calls >>

mainVars == << pc, attempts, choice, seconds, key, key_ref, heap, secret,
               displayed, cleared, exit_status, exception, wipe_calls,
               wipe_returns, line, gen_calls >>
timerVars == << tpc, iter, remaining, ticks, slept, expired >>
memVars == << key, key_ref, heap, secret >>

NoStatus == 0 - 1

\* The variables of the function-level specifications further down; the
\* run of main() leaves them alone.
harnessVars == << genVars, h_calls, intVars, saveVars >>
allVars == << vars, harnessVars >>

GenIdle ==
  /\ g_pc = "idle"
  /\ g_kind = 0
  /\ g_arg = 0
  /\ g_secret = <<>>
  /\ g_stream = 0
  /\ g_value = <<>>
  /\ g_error = "none"
  /\ g_secure_draws = 0
  /\ g_prng_draws = 0
HmacIdle == h_calls = <<>>
IntIdle ==
  /\ gi_pc = "idle"
  /\ gi_min = <<>>
  /\ gi_max = <<>>
  /\ gi_warn = <<>>
  /\ gi_attempts = 0
  /\ gi_value = <<>>
  /\ gi_status = NoStatus
  /\ gi_invalid = 0
  /\ gi_errors = 0
  /\ gi_refused = 0
  /\ gi_reads = 0
SaveIdle ==
  /\ sf_pc = "idle"
  /\ sf_attempts = 0
  /\ sf_filename = <<>>
  /\ sf_files = <<>>
  /\ sf_dirs = {}
  /\ sf_result = "none"
  /\ sf_status = NoStatus
  /\ sf_error = "none"
  /\ sf_declined = 0

MainInit ==
  /\ pc = "menu"
  /\ attempts = 0
  /\ choice = 0
  /\ seconds = 0
  /\ key = Unbound
  /\ key_ref = Unbound
  /\ heap = <<>>
  /\ secret = <<>>
  /\ displayed = FALSE
  /\ cleared = FALSE
  /\ tpc = "unstarted"
  /\ iter = 0
  /\ remaining = 0
  /\ ticks = <<>>
  /\ slept = 0
  /\ expired = FALSE
  /\ interrupts = 0
  /\ exit_status = NoStatus
  /\ exception = "none"
  /\ wipe_calls = 0
  /\ wipe_returns = 0
  /\ line = <<>>
  /\ gen_calls = 0

Init == MainInit /\ GenIdle /\ HmacIdle /\ IntIdle /\ SaveIdle

\* ----------------------------------------------------------- main thread
Running == pc \notin {"shutdown", "terminated"}
TimerAlive == tpc \in {"for", "write", "sleep", "expire"}

\* lines 107-125: one pass of the menu loop
MenuInput ==
  /\ pc = "menu"
  /\ attempts < max_attempts
  /\ \E typed \in MenuInputs :
       LET c == Strip(typed)
       IN  /\ line' = typed
           /\ IF IsDigit(c) /\ ~IsDecimal(c)
              THEN \* line 111: int(choice) raises ValueError, nothing catches it
                   /\ pc' = "shutdown"
                   /\ exception' = "ValueError"
                   /\ exit_status' = 1
                   /\ UNCHANGED << attempts, choice >>
              ELSE IF IsDigit(c) /\ 1 <= ParseDigits(c) /\ ParseDigits(c) <= 8
              THEN /\ choice' = ParseDigits(c)
                   /\ pc' = "duration"
                   /\ UNCHANGED << attempts, exit_status, exception >>
              ELSE /\ attempts' = attempts + 1
                   /\ IF max_attempts - attempts' > 0
                      THEN pc' = "menu" /\ UNCHANGED << exit_status, exception >>
                      ELSE /\ pc' = "shutdown"                  \* sys.exit(1)
                           /\ exit_status' = 1
                           /\ exception' = "SystemExit"
                   /\ UNCHANGED choice
  /\ UNCHANGED << seconds, memVars, displayed, cleared, timerVars, interrupts,
                  wipe_calls, wipe_returns, gen_calls >>
  /\ UNCHANGED harnessVars

\* lines 128-138
DurationInput ==
  /\ pc = "duration"
  /\ \E typed \in DurationInputs :
       /\ line' = typed
       /\ seconds' = ResolveSeconds(typed)
  /\ pc' = "generate"
  /\ UNCHANGED gen_calls
  /\ UNCHANGED << attempts, choice, memVars, displayed, cleared, timerVars,
                  interrupts, exit_status, exception, wipe_calls, wipe_returns >>
  /\ UNCHANGED harnessVars

\* lines 141-151
GenerateKey ==
  /\ pc = "generate"
  /\ \E s \in RandStreams :
       /\ heap' = Append(heap, key_generators(choice, s))
       /\ secret' = key_generators(choice, s)
  /\ key' = Len(heap) + 1
  /\ gen_calls' = gen_calls + 1
  /\ pc' = "display"
  /\ UNCHANGED line
  /\ UNCHANGED << attempts, choice, seconds, key_ref, displayed, cleared,
                  timerVars, interrupts, exit_status, exception, wipe_calls, wipe_returns >>
  /\ UNCHANGED harnessVars

\* lines 154-156
DisplayKey ==
  /\ pc = "display"
  /\ displayed' = TRUE
  /\ pc' = "start"
  /\ UNCHANGED << attempts, choice, seconds, memVars, cleared, timerVars,
                  interrupts, exit_status, exception, wipe_calls, wipe_returns >>
  /\ UNCHANGED << line, gen_calls >>
  /\ UNCHANGED harnessVars

\* lines 159-160: a new thread running countdown_timer(seconds)
StartTimer ==
  /\ pc = "start"
  /\ tpc' = "for"
  /\ iter' = seconds
  /\ pc' = "join"
  /\ UNCHANGED << attempts, choice, seconds, memVars, displayed, cleared,
                  remaining, ticks, slept, expired, interrupts, exit_status, exception,
                  wipe_calls, wipe_returns >>
  /\ UNCHANGED << line, gen_calls >>
  /\ UNCHANGED harnessVars

\* join that also returns while the thread is still running
JoinReadyNoWait == tpc # "unstarted"

\* Thread.join() returns once the thread's target has returned
JoinReady == tpc = "finished"

\* after the join the flow goes back to start another countdown
JoinTimerRestart ==
  /\ pc = "join"
  /\ JoinReady
  /\ pc' = "start"
  /\ UNCHANGED << attempts, choice, seconds, memVars, displayed, cleared,
                  timerVars, interrupts, exit_status, exception, wipe_calls, wipe_returns >>
  /\ UNCHANGED << line, gen_calls >>
  /\ UNCHANGED harnessVars

\* after the join the flow goes straight to clearing the terminal
JoinTimerSkipWipe ==
  /\ pc = "join"
  /\ JoinReady
  /\ pc' = "clear"
  /\ UNCHANGED << attempts, choice, seconds, memVars, displayed, cleared,
                  timerVars, interrupts, exit_status, exception, wipe_calls,
                  wipe_returns, line, gen_calls >>
  /\ UNCHANGED harnessVars

\* line 163
JoinTimer ==
  /\ pc = "join"
  /\ JoinReady
  /\ pc' = "wipe_call"
  /\ UNCHANGED << attempts, choice, seconds, memVars, displayed, cleared,
                  timerVars, interrupts, exit_status, exception, wipe_calls, wipe_returns >>
  /\ UNCHANGED << line, gen_calls >>
  /\ UNCHANGED harnessVars

\* line 166: the call binds the parameter key_ref to the object key names
WipeCall ==
  /\ pc = "wipe_call"
  /\ key_ref' = key
  /\ wipe_calls' = wipe_calls + 1
  /\ pc' = "wipe_overwrite"
  /\ UNCHANGED << attempts, choice, seconds, key, heap, secret, displayed,
                  cleared, timerVars, interrupts, exit_status, exception, wipe_returns >>
  /\ UNCHANGED << line, gen_calls >>
  /\ UNCHANGED harnessVars

\* line 88: a new str object is built and the local name is rebound to it
WipeOverwrite ==
  /\ pc = "wipe_overwrite"
  /\ heap' = Append(heap, Stars(Len(Deref(heap, key_ref))))
  /\ key_ref' = Len(heap) + 1
  /\ pc' = "wipe_del"
  /\ UNCHANGED << attempts, choice, seconds, key, secret, displayed, cleared,
                  timerVars, interrupts, exit_status, exception, wipe_calls, wipe_returns >>
  /\ UNCHANGED << line, gen_calls >>
  /\ UNCHANGED harnessVars

\* line 89: the local name is unbound; its object loses its last reference
WipeDel ==
  /\ pc = "wipe_del"
  /\ key_ref' = Unbound
  /\ heap' = Reclaim(heap, {key} \ {Unbound})
  /\ pc' = "wipe_gc"
  /\ UNCHANGED << attempts, choice, seconds, key, secret, displayed, cleared,
                  timerVars, interrupts, exit_status, exception, wipe_calls, wipe_returns >>
  /\ UNCHANGED << line, gen_calls >>
  /\ UNCHANGED harnessVars

\* line 90 and the return
WipeCollect ==
  /\ pc = "wipe_gc"
  /\ heap' = Reclaim(heap, {key, key_ref} \ {Unbound})
  /\ wipe_returns' = wipe_returns + 1
  /\ pc' = "clear"
  /\ UNCHANGED << attempts, choice, seconds, key, key_ref, secret, displayed,
                  cleared, timerVars, interrupts, exit_status, exception, wipe_calls >>
  /\ UNCHANGED << line, gen_calls >>
  /\ UNCHANGED harnessVars

\* lines 169-172: both the posix and the nt branch clear the terminal
ClearTerminal ==
  /\ pc = "clear"
  /\ cleared' = TRUE
  /\ pc' = "exit"
  /\ UNCHANGED << attempts, choice, seconds, memVars, displayed, timerVars,
                  interrupts, exit_status, exception, wipe_calls, wipe_returns >>
  /\ UNCHANGED << line, gen_calls >>
  /\ UNCHANGED harnessVars

\* lines 174-175: sys.exit(0)
ExitOk ==
  /\ pc = "exit"
  /\ exit_status' = 0
  /\ exception' = "SystemExit"
  /\ pc' = "shutdown"
  /\ UNCHANGED << attempts, choice, seconds, memVars, displayed, cleared,
                  timerVars, interrupts, wipe_calls, wipe_returns >>
  /\ UNCHANGED << line, gen_calls >>
  /\ UNCHANGED harnessVars

\* SIGINT while main() runs: KeyboardInterrupt is raised in the main thread;
\* main() has no handler (no try/except/finally encloses lines 94-175), so
\* the exception leaves main() from wherever it is.
Interrupt ==
  /\ Running
  /\ interrupts < MaxInterrupts
  /\ interrupts' = interrupts + 1
  /\ pc' = "shutdown"
  /\ exception' = "KeyboardInterrupt"
  /\ UNCHANGED << attempts, choice, seconds, memVars, displayed, cleared,
                  timerVars, exit_status, wipe_calls, wipe_returns >>
  /\ UNCHANGED << line, gen_calls >>
  /\ UNCHANGED harnessVars

\* After main() is left the interpreter waits for the non-daemon timer
\* thread (line 159 creates it without daemon=True), then the process ends
\* and its memory is released.
Terminate ==
  /\ pc = "shutdown"
  /\ ~TimerAlive
  /\ pc' = "terminated"
  /\ key' = Unbound
  /\ key_ref' = Unbound
  /\ heap' = Reclaim(heap, {})
  /\ UNCHANGED << attempts, choice, seconds, secret, displayed, cleared,
                  timerVars, interrupts, exit_status, exception, wipe_calls, wipe_returns >>
  /\ UNCHANGED << line, gen_calls >>
  /\ UNCHANGED harnessVars

\* SIGINT while the interpreter waits for the timer thread: the wait is
\* abandoned and the process ends with the thread cut short.
InterruptShutdown ==
  /\ pc = "shutdown"
  /\ TimerAlive
  /\ interrupts < MaxInterrupts
  /\ interrupts' = interrupts + 1
  /\ tpc' = "killed"
  /\ pc' = "terminated"
  /\ key' = Unbound
  /\ key_ref' = Unbound
  /\ heap' = Reclaim(heap, {})
  /\ UNCHANGED << attempts, choice, seconds, secret, displayed, cleared, iter,
                  remaining, ticks, slept, expired, exit_status, exception, wipe_calls,
                  wipe_returns >>
  /\ UNCHANGED << line, gen_calls >>
  /\ UNCHANGED harnessVars

\* ---------------------------------------------------------- timer thread
\* range(seconds, -1, -1): the countdown runs one value too far
RangeHasNextInclusive(i) == i >= 0

\* range(seconds, 0, -1) has a next value
RangeHasNext(i) == i > 0

\* line 79
TimerFor ==
  /\ tpc = "for"
  /\ IF RangeHasNext(iter)
     THEN /\ remaining' = iter
          /\ iter' = iter - 1
          /\ tpc' = "write"
     ELSE /\ tpc' = "expire"
          /\ UNCHANGED << remaining, iter >>
  /\ UNCHANGED << mainVars, ticks, slept, expired, interrupts >>
  /\ UNCHANGED harnessVars

\* lines 80-81
TimerWrite ==
  /\ tpc = "write"
  /\ ticks' = Append(ticks, remaining)
  /\ tpc' = "sleep"
  /\ UNCHANGED << mainVars, iter, remaining, slept, expired, interrupts >>
  /\ UNCHANGED harnessVars

\* line 82
TimerSleep ==
  /\ tpc = "sleep"
  /\ slept' = slept + 1
  /\ tpc' = "for"
  /\ UNCHANGED << mainVars, iter, remaining, ticks, expired, interrupts >>
  /\ UNCHANGED harnessVars

\* line 83 and the return
TimerExpire ==
  /\ tpc = "expire"
  /\ expired' = TRUE
  /\ tpc' = "finished"
  /\ UNCHANGED << mainVars, iter, remaining, ticks, slept, interrupts >>
  /\ UNCHANGED harnessVars

Next ==
  \/ MenuInput
  \/ DurationInput
  \/ GenerateKey
  \/ DisplayKey
  \/ StartTimer
  \/ JoinTimer
  \/ WipeCall
  \/ WipeOverwrite
  \/ WipeDel
  \/ WipeCollect
  \/ ClearTerminal
  \/ ExitOk
  \/ Interrupt
  \/ Terminate
  \/ InterruptShutdown
  \/ TimerFor
  \/ TimerWrite
  \/ TimerSleep
  \/ TimerExpire

Spec == Init /\ [][Next]_vars

\* The timer thread is scheduled whenever it can run, and sleep(1) returns.
TimerStep == TimerFor \/ TimerWrite \/ TimerSleep \/ TimerExpire
FairSpec == Spec /\ WF_vars(TimerStep)

\* ------------------------------------------------ a generator on its own
GenKinds == 1..8
GenArgs == ((0 - 2)..MaxKeyLen) \cup {32}
CallStreams == 0..(CallStreamCount - 1)
HmacSecrets ==
  { DefaultHmacSecret, <<"k">>, <<"k", NulChar>>, <<"j">>, <<"k", "k">>, <<>> }

\* the kinds whose parameter is a length or a word count
TakesLength(kind) == kind \in {1, 3, 5, 6, 7}
\* len(range(n))
RangeLen(n) == IF n > 0 THEN n ELSE 0

\* What a call returns or raises.  range(n) is empty for n <= 0;
\* secrets.token_bytes(n) and token_hex(n) raise ValueError for n < 0.
Generate(kind, arg, sec, s) ==
  CASE kind = 1 -> [error |-> "none", value |-> generate_random_key(s, arg)]
    [] kind = 2 -> [error |-> "none", value |-> generate_uuid_key(s)]
    [] kind = 3 -> IF arg \div 2 < 0 THEN [error |-> "ValueError", value |-> <<>>]
                   ELSE [error |-> "none", value |-> generate_hex_key(s, arg)]
    [] kind = 4 -> [error |-> "none", value |-> generate_sha256_key(s)]
    [] kind = 5 -> IF arg < 0 THEN [error |-> "ValueError", value |-> <<>>]
                   ELSE [error |-> "none", value |-> generate_base64_key(s, arg)]
    [] kind = 6 -> [error |-> "none", value |-> generate_numeric_key(s, arg)]
    [] kind = 7 -> [error |-> "none", value |-> generate_passphrase(s, arg)]
    [] OTHER -> [error |-> "none", value |-> generate_hmac_key(sec)]

\* values a call draws through the secrets module or os.urandom
SecureDraws(kind, arg) ==
  CASE kind = 1 -> RangeLen(arg)              \* secrets.choice, line 36
    [] kind = 2 -> 16                         \* uuid.uuid4: os.urandom(16)
    [] kind = 3 -> RangeLen(arg \div 2)       \* secrets.token_hex, line 46
    [] kind = 4 -> 32                         \* secrets.token_bytes(32)
    [] kind = 5 -> RangeLen(arg)              \* secrets.token_bytes, line 56
    [] kind = 6 -> RangeLen(arg)              \* secrets.randbelow, line 61
    [] OTHER -> 0
\* values a call draws through the random module (Mersenne Twister)
PrngDraws(kind, arg) ==
  IF kind = 7 THEN RangeLen(arg) ELSE 0       \* random.choice, line 69

GenInit ==
  /\ MainInit
  /\ HmacIdle
  /\ IntIdle
  /\ SaveIdle
  /\ g_pc = "called"
  /\ g_kind \in GenKinds
  /\ g_arg \in (IF TakesLength(g_kind) THEN GenArgs ELSE {0})
  /\ g_secret \in (IF g_kind = 8 THEN HmacSecrets ELSE {<<>>})
  /\ g_stream \in CallStreams
  /\ g_value = <<>>
  /\ g_error = "none"
  /\ g_secure_draws = 0
  /\ g_prng_draws = 0

GenReturn ==
  /\ g_pc = "called"
  /\ LET r == Generate(g_kind, g_arg, g_secret, g_stream)
     IN  /\ g_value' = r.value
         /\ g_error' = r.error
         /\ g_pc' = IF r.error = "none" THEN "returned" ELSE "raised"
         /\ g_secure_draws' = IF r.error = "none" THEN SecureDraws(g_kind, g_arg) ELSE 0
         /\ g_prng_draws' = IF r.error = "none" THEN PrngDraws(g_kind, g_arg) ELSE 0
  /\ UNCHANGED << g_kind, g_arg, g_secret, g_stream, h_calls, intVars, saveVars, vars >>

GenNext == GenReturn
GenSpec == GenInit /\ [][GenNext]_allVars

\* ------------------------------------------- generate_hmac_key in a row
HmacInit == MainInit /\ GenIdle /\ IntIdle /\ SaveIdle /\ h_calls = <<>>

HmacCall ==
  /\ Len(h_calls) < MaxHmacCalls
  /\ \E sec \in HmacSecrets :
       h_calls' = Append(h_calls, [secret |-> sec, out |-> generate_hmac_key(sec)])
  /\ UNCHANGED << genVars, intVars, saveVars, vars >>

HmacNext == HmacCall
HmacSpec == HmacInit /\ [][HmacNext]_allVars

\* ------------------------------------------------------- lifecycle view
\* Control has left main(): by sys.exit or by an exception.
LeftMain == pc \in {"shutdown", "terminated"}
\* The operator's interrupt ended main().
Cancelled == LeftMain /\ exception = "KeyboardInterrupt"
\* The secret has been displayed and the countdown started.
ExposureStarted == displayed /\ tpc # "unstarted"
\* The main thread is inside wipe_key_from_memory.
InWipe == pc \in {"wipe_overwrite", "wipe_del", "wipe_gc"}
\* The main thread is past line 163.
PastJoin == pc \in {"wipe_call", "wipe_overwrite", "wipe_del", "wipe_gc", "clear", "exit"}

\* The controller's state read off the program: Idle until the key is
\* printed, Expired once the countdown has ended or the process is gone.
ControllerState ==
  IF ~displayed THEN "Idle"
  ELSE IF tpc \in {"finished", "killed"} \/ pc = "terminated" THEN "Expired"
  ELSE "Exposed"

\* range(n, 0, -1) as a sequence
CountdownSeq(n) == [i \in 1..n |-> n - i + 1]

\* ---------------------------------------------------------------- claims

\* C1 (as claimed): once the secret has been displayed and the countdown
\* started, main() is never left, by expiry or by the operator's interrupt,
\* without wipe_key_from_memory having been called on the secret.
C1_WipeOnEveryExit ==
  (LeftMain /\ ExposureStarted) => wipe_calls >= 1

\* C2 (as claimed): whenever control has left main() after the key was
\* displayed, the wipe has returned and the secret is no longer what the
\* name key refers to.
C2_WipeThenReturn ==
  (pc = "shutdown" /\ displayed) =>
     (wipe_returns >= 1 /\ Deref(heap, key) # secret)

\* C3 (as claimed): once wipe_key_from_memory(key) has returned, the value
\* reachable through main's name key is the filler of equal length and no
\* longer the generated secret.
C3_CallerReferenceOverwritten ==
  (wipe_returns >= 1 /\ pc \in {"clear", "exit", "shutdown"}) =>
     (Deref(heap, key) # secret /\ Deref(heap, key) = Stars(Len(secret)))

\* C4: the lifecycle only moves Idle -> Exposed and Exposed -> Expired; in
\* particular nothing leads back to Exposed once Expired is reached.
C4_LifecycleOrder ==
  [][ControllerState' # ControllerState =>
        << ControllerState, ControllerState' >> \in
           { << "Idle", "Exposed" >>, << "Exposed", "Expired" >> }]_vars
\* C4 witness: Expired was reached by the countdown running out and the
\* run ended normally.
C4_Witness ==
  ControllerState = "Expired" /\ expired /\ pc = "terminated" /\ exit_status = 0

\* C6 (as claimed): after the operator cancels while the countdown still
\* has seconds left, the countdown emits no further remaining-seconds tick.
C6_CancelStopsCountdown ==
  [][(Cancelled /\ TimerAlive) => ticks' = ticks]_vars

\* C7 (as claimed): in every run that exposed the secret, by the time
\* main() is left the wipe has been executed exactly once and completely.
C7_ExactlyOneCompleteWipe ==
  (LeftMain /\ ExposureStarted) => (wipe_calls = 1 /\ wipe_returns = 1)

\* C8: the wipe runs only when the countdown thread has finished; the two
\* are never active together.
C8_WipeAfterCountdown ==
  (InWipe \/ wipe_calls > 0) => (tpc = "finished" /\ expired)
\* C8 witness: the main thread is inside the wipe, after a full countdown.
C8_Witness ==
  pc = "wipe_overwrite" /\ key_ref = key /\ tpc = "finished" /\ Len(ticks) = seconds

\* C9 (as claimed): the main thread is past the join, or has left main(),
\* only when the countdown thread is no longer running.
C9_LeavesAfterCountdown ==
  (PastJoin \/ LeftMain) => ~TimerAlive

\* C10: for a window of N seconds, 1 <= N <= 60, the countdown writes
\* N, N-1, ..., 1, one value per one-second sleep, never another value, and
\* once started it ends; when it returns it has written all N values and
\* the expiry message.
C10_CountdownShape ==
  tpc # "unstarted" =>
    /\ seconds \in 1..MaxSeconds
    /\ Len(ticks) <= seconds
    /\ ticks = SubSeq(CountdownSeq(seconds), 1, Len(ticks))
    /\ slept \in {Len(ticks), Len(ticks) - 1}
    /\ slept >= 0
    /\ expired => (ticks = CountdownSeq(seconds) /\ slept = seconds)
    /\ tpc = "finished" => expired
C10_Countdown ==
  /\ []C10_CountdownShape
  /\ (tpc = "for") ~> (tpc \in {"finished", "killed"})
\* C10 witness: a 60-second countdown has run to its end.
C10_Witness ==
  tpc = "finished" /\ seconds = MaxSeconds /\ ticks = CountdownSeq(MaxSeconds)
    /\ slept = MaxSeconds /\ expired

\* C11: the duration is clamped, never rejected: an integer below 1 gives
\* 20, one above 60 gives 60, one in 1..60 is kept, an empty or non-integer
\* line gives 20; so the countdown always starts from a value in 1..60.
C11_DurationClamped ==
  /\ pc = "generate" =>
       LET r == IntParse(line)
       IN  /\ (line = <<>> \/ ~r.ok) => seconds = 20
           /\ (line # <<>> /\ r.ok /\ r.value < 1) => seconds = 20
           /\ (line # <<>> /\ r.ok /\ r.value > 60) => seconds = 60
           /\ (line # <<>> /\ r.ok /\ r.value >= 1 /\ r.value <= 60)
                 => seconds = r.value
  /\ tpc # "unstarted" => seconds \in 1..60
  /\ (tpc = "for" /\ ticks = <<>>) => iter = seconds
\* C11 witness: 500 was entered and the duration became 60.
C11_Witness ==
  pc = "generate" /\ line = <<"5","0","0">> /\ seconds = 60

\* C17: the steps of a run come in one order: kind, duration, one call of
\* one generator, display, countdown to its end, wipe, terminal clearing,
\* exit 0.  No key exists before both inputs are resolved, and the terminal
\* is cleared only once the controller is Expired.
C17_StepOrder ==
  /\ gen_calls <= 1
  /\ (choice = 0 \/ seconds = 0) => (gen_calls = 0 /\ heap = <<>> /\ key = Unbound)
  /\ gen_calls = 1 => (choice \in 1..8 /\ seconds \in 1..60)
  /\ pc = "display" =>
       (gen_calls = 1 /\ secret \in { key_generators(choice, s) : s \in RandStreams })
  /\ displayed => gen_calls = 1
  /\ tpc # "unstarted" => displayed
  /\ wipe_calls > 0 => (tpc = "finished" /\ Len(ticks) = seconds)
  /\ cleared => (wipe_returns = 1 /\ ControllerState = "Expired")
  /\ exit_status = 0 => (cleared /\ exception = "SystemExit")
\* C17 witness: a run that went through every step and exited with 0.
C17_Witness ==
  /\ pc = "terminated" /\ exit_status = 0 /\ cleared /\ wipe_returns = 1
  /\ gen_calls = 1 /\ Len(ticks) = seconds /\ choice = 7

\* C18 (as claimed): attempts stays in 0..3; the program exits with status 1
\* exactly when the third invalid menu entry has been made, and then no key
\* was generated or displayed; a key is generated only for a choice in 1..8.
C18_MenuAttempts ==
  /\ attempts \in 0..3
  /\ (exit_status = 1) <=> (attempts = 3)
  /\ exit_status = 1 => (gen_calls = 0 /\ ~displayed)
  /\ gen_calls > 0 => choice \in 1..8

\* ---------------------------------------------- claims on the generators
GenDone == g_pc \in {"returned", "raised"}
InvalidParameter ==
  \/ TakesLength(g_kind) /\ g_arg <= 0
  \/ g_kind = 8 /\ g_secret = <<>>
Alphanumeric62 ==
  { UpperChars[i] : i \in 1..26 } \cup { LowerChars[i] : i \in 1..26 }
     \cup { DigitChars[i] : i \in 1..10 }
HexDigits == { HexLower[i] : i \in 1..16 }

\* C12 (as claimed): a generator called with a zero or negative length or
\* word count, or an empty HMAC key, returns nothing and fails with
\* InvalidParameter.
C12_InvalidParameterRejected ==
  (GenDone /\ InvalidParameter) =>
     (g_pc = "raised" /\ g_error = "InvalidParameter" /\ g_value = <<>>)

\* C13 (as claimed): no generator draws a value from the random module;
\* every value drawn comes from the secure source.
C13_SecureSourceOnly ==
  GenDone => g_prng_draws = 0

\* C15: for L >= 1 generate_random_key(L) returns, for every outcome of the
\* random source, exactly L characters, all from the 62 letters and digits.
C15_RandomKeyShape ==
  /\ Cardinality(Alphanumeric62) = 62
  /\ (GenDone /\ g_kind = 1 /\ g_arg >= 1) =>
       /\ g_pc = "returned"
       /\ Len(g_value) = g_arg
       /\ \A i \in 1..Len(g_value) : g_value[i] \in Alphanumeric62
\* C15 witness: a 32-character key was returned.
C15_Witness ==
  g_pc = "returned" /\ g_kind = 1 /\ g_arg = 32 /\ Len(g_value) = 32

\* C16: generate_hex_key(L) returns L hex characters from L/2 random bytes
\* for even L >= 2, and 2*floor(L/2) = L-1 characters for odd L.
C16_HexKeyLength ==
  (GenDone /\ g_kind = 3 /\ g_arg >= 1) =>
     /\ g_pc = "returned"
     /\ g_secure_draws = g_arg \div 2
     /\ Len(g_value) = 2 * g_secure_draws
     /\ g_arg % 2 = 0 => Len(g_value) = g_arg
     /\ g_arg % 2 = 1 => Len(g_value) = g_arg - 1
     /\ \A i \in 1..Len(g_value) : g_value[i] \in HexDigits
\* C16 witness: an odd length lost one character.
C16_Witness ==
  g_pc = "returned" /\ g_kind = 3 /\ g_arg = 5 /\ Len(g_value) = 4

\* ------------------------------------------------ claims on the HMAC kind
\* the secret without its trailing U+0000 characters
RECURSIVE StripNul(_)
StripNul(str) ==
  IF str # <<>> /\ str[Len(str)] = NulChar
  THEN StripNul(SubSeq(str, 1, Len(str) - 1))
  ELSE str

LowerChar(c) == IF InSeq(UpperChars, c) THEN LowerChars[IndexOf(UpperChars, c)] ELSE c
Lower(str) == [i \in 1..Len(str) |-> LowerChar(str[i])]

\* the arguments the function is called with
MinValues == { <<>>, << 2 >> }
MaxValues == { <<>>, << 9 >> }
WarningThresholds == { <<>>, << 5 >> }
\* what the operator may type at the prompt
IntegerInputs ==
  { <<>>, <<" ">>, <<"a">>, <<"1">>, <<"2">>, <<"5">>, <<"7">>, <<" ","9"," ">>,
    <<"1","2">>, <<"-","1">>, <<"1",".","5">>, << SuperscriptTwo >> }
\* what the operator may type at a yes/no question
ConfirmInputs ==
  { <<"y">>, <<"Y","E","S">>, <<"y"," ">>, <<"n">>, <<" ","N","o">>, <<"x">>, <<>> }
Yes == { <<"y">>, <<"y","e","s">> }
No == { <<"n">>, <<"n","o">> }

\* the test of "while attempts < max_attempts"; leaving the loop falls
\* through to the end of the function, which returns None
IntegerLoop(a) == IF a < gi_max_attempts THEN "prompt" ELSE "fell_through"

IntegerInit ==
  /\ MainInit
  /\ GenIdle
  /\ HmacIdle
  /\ SaveIdle
  /\ gi_pc = IntegerLoop(0)
  /\ gi_min \in MinValues
  /\ gi_max \in MaxValues
  /\ gi_warn \in WarningThresholds
  /\ gi_attempts = 0
  /\ gi_value = <<>>
  /\ gi_status = NoStatus
  /\ gi_invalid = 0
  /\ gi_errors = 0
  /\ gi_refused = 0
  /\ gi_reads = 0

\* attempts += 1; sys.exit(1) once attempts >= max_attempts; else continue
IntegerFailed ==
  /\ gi_attempts' = gi_attempts + 1
  /\ IF gi_attempts + 1 >= gi_max_attempts
     THEN gi_pc' = "exited" /\ gi_status' = 1
     ELSE gi_pc' = IntegerLoop(gi_attempts + 1) /\ UNCHANGED gi_status

\* lines 137-192 up to the next input(): one entry read and validated
IntegerEntry ==
  /\ gi_pc = "prompt"
  /\ gi_reads < MaxReads
  /\ gi_reads' = gi_reads + 1
  /\ \E typed \in IntegerInputs :
       LET value == Strip(typed)
           r == IntParse(value)
           invalid == \/ value = <<>>
                      \/ ~r.ok
                      \/ gi_min # <<>> /\ r.value < gi_min[1]
                      \/ gi_max # <<>> /\ r.value > gi_max[1]
       IN  IF invalid
           THEN /\ IntegerFailed
                /\ gi_invalid' = gi_invalid + 1
                /\ UNCHANGED gi_value
           ELSE /\ gi_value' = << r.value >>
                /\ gi_pc' = IF gi_warn # <<>> /\ r.value > gi_warn[1]
                            THEN "confirm" ELSE "returned"
                /\ UNCHANGED << gi_attempts, gi_status, gi_invalid >>
  /\ UNCHANGED << gi_min, gi_max, gi_warn, gi_errors, gi_refused >>
  /\ UNCHANGED << genVars, h_calls, saveVars, vars >>

\* a refusal at the confirmation counted as a failed attempt
IntegerConfirmCounted ==
  /\ gi_pc = "confirm"
  /\ gi_reads < MaxReads
  /\ gi_reads' = gi_reads + 1
  /\ \E typed \in ConfirmInputs :
       LET confirm == Strip(Lower(typed))
       IN  IF confirm \in Yes
           THEN gi_pc' = "returned" /\ UNCHANGED << gi_refused, gi_attempts, gi_status >>
           ELSE IF confirm \in No
           THEN /\ gi_refused' = gi_refused + 1
                /\ IntegerFailed
           ELSE gi_pc' = "confirm" /\ UNCHANGED << gi_refused, gi_attempts, gi_status >>
  /\ UNCHANGED << gi_min, gi_max, gi_warn, gi_value, gi_invalid, gi_errors >>
  /\ UNCHANGED << genVars, h_calls, saveVars, vars >>

\* lines 178-190: one answer to "Continue? (y/n): "
IntegerConfirm ==
  /\ gi_pc = "confirm"
  /\ gi_reads < MaxReads
  /\ gi_reads' = gi_reads + 1
  /\ \E typed \in ConfirmInputs :
       LET confirm == Strip(Lower(typed))
       IN  IF confirm \in Yes
           THEN gi_pc' = "returned" /\ UNCHANGED gi_refused
           ELSE IF confirm \in No
           THEN gi_pc' = IntegerLoop(gi_attempts) /\ gi_refused' = gi_refused + 1
           ELSE gi_pc' = "confirm" /\ UNCHANGED gi_refused
  /\ UNCHANGED << gi_min, gi_max, gi_warn, gi_attempts, gi_value, gi_status,
                  gi_invalid, gi_errors >>
  /\ UNCHANGED << genVars, h_calls, saveVars, vars >>

\* lines 197-202: input() raises at end of input (EOFError)
IntegerEndOfInput ==
  /\ gi_pc \in {"prompt", "confirm"}
  /\ gi_reads < MaxReads
  /\ gi_reads' = gi_reads + 1
  /\ gi_errors' = gi_errors + 1
  /\ IntegerFailed
  /\ UNCHANGED << gi_min, gi_max, gi_warn, gi_value, gi_invalid, gi_refused >>
  /\ UNCHANGED << genVars, h_calls, saveVars, vars >>

\* lines 194-196: KeyboardInterrupt while waiting for a line
IntegerInterrupt ==
  /\ gi_pc \in {"prompt", "confirm"}
  /\ gi_pc' = "exited"
  /\ gi_status' = 0
  /\ UNCHANGED << gi_min, gi_max, gi_warn, gi_attempts, gi_value, gi_invalid,
                  gi_errors, gi_refused, gi_reads >>
  /\ UNCHANGED << genVars, h_calls, saveVars, vars >>

IntegerNext ==
  \/ IntegerEntry
  \/ IntegerConfirm
  \/ IntegerEndOfInput
  \/ IntegerInterrupt
IntegerSpec == IntegerInit /\ [][IntegerNext]_allVars

\* the integer returned lies within the bounds given
ReturnsWithinBounds ==
  gi_pc = "returned" =>
     /\ Len(gi_value) = 1
     /\ gi_value[1] \in Int
     /\ gi_min # <<>> => gi_value[1] >= gi_min[1]
     /\ gi_max # <<>> => gi_value[1] <= gi_max[1]

\* C19 (as claimed): get_integer_input returns only an integer within the
\* bounds, ends the program with status 1 exactly when the invalid entries
\* (empty, non-integer, below min, above max) number max_attempts, and
\* attempts never exceeds max_attempts.
C19_ExitAtInvalidEntries ==
  /\ ReturnsWithinBounds
  /\ gi_pc # "fell_through"
  /\ (gi_status = 1) <=> (gi_invalid = gi_max_attempts)
  /\ gi_attempts <= gi_max_attempts

\* C19 (amended): get_integer_input returns only an integer within the
\* bounds; attempts counts the invalid entries and the exceptions caught
\* while reading a line, never the entries refused at the confirmation;
\* status 1 is returned exactly when attempts reaches max_attempts, which
\* it never exceeds.
C19_ExitAtAttempts ==
  /\ ReturnsWithinBounds
  /\ gi_pc # "fell_through"
  /\ gi_attempts = gi_invalid + gi_errors
  /\ (gi_status = 1) <=> (gi_attempts = gi_max_attempts)
  /\ gi_attempts <= gi_max_attempts
\* C19 witness: status 1 after two invalid entries, a refused one and an
\* end of input.
C19_Witness ==
  /\ gi_pc = "exited"
  /\ gi_status = 1
  /\ gi_invalid = 2
  /\ gi_errors = 1
  /\ gi_refused >= 1

\* ---------------------------------------------------------- save_to_file
\* the default of the parameter default_filename
default_filename == <<"p","i","_","d","i","g","i","t","s",".","t","x","t">>
TxtExt == <<".","t","x","t">>
\* what the operator may type at "Enter filename"
TypedNames ==
  { <<>>, <<" ">>, <<"o","u","t">>, <<"a",".","b">>, <<"d","/","o">> }

\* os.path.dirname: what precedes the last "/"
Dirname(path) ==
  IF InSeq(path, "/")
  THEN LET last == CHOOSE i \in 1..Len(path) :
                     path[i] = "/" /\ \A j \in (i + 1)..Len(path) : path[j] # "/"
       IN  SubSeq(path, 1, last - 1)
  ELSE <<>>

\* lines 276-286: the name typed, or the default, with ".txt" added to a
\* name without a "."; <<>> stands for the empty name of line 279
ResolveFilename(typed) ==
  LET stripped == Strip(typed)
      named == IF stripped = <<>> THEN default_filename ELSE stripped
  IN  IF named = <<>> THEN <<>>
      ELSE IF InSeq(named, ".") THEN named
      ELSE named \o TxtExt

Paths == { ResolveFilename(typed) : typed \in TypedNames }
Dirs == { Dirname(path) : path \in Paths } \ { <<>> }

\* how os.makedirs and open()/write() may end
MakedirsOutcomes == { "ok", "PermissionError", "Exception" }
WriteOutcomes == { "ok", "PermissionError", "IOError", "Exception" }

SaveInit ==
  /\ MainInit
  /\ GenIdle
  /\ HmacIdle
  /\ IntIdle
  /\ sf_pc = IF 0 < sf_max_attempts THEN "prompt" ELSE "returned"
  /\ sf_attempts = 0
  /\ sf_filename = <<>>
  /\ sf_dirs \in SUBSET Dirs
  /\ sf_files \in [Paths -> {"absent", "old"}]
  /\ \A path \in Paths :
       sf_files[path] # "absent" => (Dirname(path) = <<>> \/ Dirname(path) \in sf_dirs)
  /\ sf_result = IF 0 < sf_max_attempts THEN "none" ELSE "False"
  /\ sf_status = NoStatus
  /\ sf_error = "none"
  /\ sf_declined = 0

\* attempts has become a; where checked, sys.exit(1) once a >= max_attempts;
\* then the test of "while attempts < max_attempts", and line 342 after the
\* loop
SaveAfter(a, checked) ==
  /\ sf_attempts' = a
  /\ IF checked /\ a >= sf_max_attempts
     THEN sf_pc' = "exited" /\ sf_status' = 1 /\ UNCHANGED sf_result
     ELSE IF a < sf_max_attempts
     THEN sf_pc' = "prompt" /\ UNCHANGED << sf_status, sf_result >>
     ELSE sf_pc' = "returned" /\ sf_result' = "False" /\ UNCHANGED sf_status

\* lines 315-340: open, write, return True, or one of the handlers
SaveWrite(fname) ==
  \E out \in WriteOutcomes :
     IF out = "ok"
     THEN /\ sf_files' = [sf_files EXCEPT ![fname] = "content"]
          /\ sf_pc' = "returned"
          /\ sf_result' = "True"
          /\ sf_error' = "none"
          /\ UNCHANGED << sf_attempts, sf_status >>
     ELSE /\ sf_error' = out
          /\ \E left \in (IF out = "PermissionError" THEN { sf_files[fname] }
                          ELSE { sf_files[fname], "partial" }) :
               sf_files' = [sf_files EXCEPT ![fname] = left]
          /\ SaveAfter(sf_attempts + 1, TRUE)

\* lines 276-318 up to the next input(): a name read, the directory made,
\* and the file written unless it exists
SaveFilename ==
  /\ sf_pc = "prompt"
  /\ \E typed \in TypedNames :
       LET fname == ResolveFilename(typed)
           directory == Dirname(fname)
       IN  /\ sf_filename' = fname
           /\ IF fname = <<>>
              THEN /\ SaveAfter(sf_attempts + 1, FALSE)
                   /\ UNCHANGED << sf_files, sf_dirs, sf_error >>
              ELSE \E mk \in (IF directory # <<>> /\ directory \notin sf_dirs
                              THEN MakedirsOutcomes ELSE { "none" }) :
                     IF mk \in { "PermissionError", "Exception" }
                     THEN /\ sf_error' = mk
                          /\ SaveAfter(sf_attempts + 1, TRUE)
                          /\ UNCHANGED << sf_files, sf_dirs >>
                     ELSE /\ sf_dirs' = IF mk = "ok" THEN sf_dirs \cup { directory }
                                        ELSE sf_dirs
                          /\ IF sf_files[fname] # "absent"
                             THEN /\ sf_pc' = "confirm"
                                  /\ UNCHANGED << sf_attempts, sf_files, sf_result,
                                                  sf_status, sf_error >>
                             ELSE SaveWrite(fname)
  /\ UNCHANGED sf_declined
  /\ UNCHANGED << genVars, h_calls, intVars, vars >>

\* lines 310-318: one answer to "Overwrite? (y/n): "; the answer is
\* lower-cased and not stripped
SaveConfirm ==
  /\ sf_pc = "confirm"
  /\ \E typed \in ConfirmInputs :
       IF Lower(typed) \in Yes
       THEN SaveWrite(sf_filename) /\ UNCHANGED sf_declined
       ELSE /\ sf_declined' = sf_declined + 1
            /\ SaveAfter(sf_attempts + 1, FALSE)
            /\ UNCHANGED << sf_files, sf_error >>
  /\ UNCHANGED << sf_filename, sf_dirs >>
  /\ UNCHANGED << genVars, h_calls, intVars, vars >>

\* input() raises EOFError: outside the try on line 276, where it leaves the
\* function; inside it on line 310, where lines 335-340 count it
SaveEndOfInput ==
  /\ sf_pc \in {"prompt", "confirm"}
  /\ sf_error' = "EOFError"
  /\ IF sf_pc = "prompt"
     THEN sf_pc' = "raised" /\ UNCHANGED << sf_attempts, sf_result, sf_status >>
     ELSE SaveAfter(sf_attempts + 1, TRUE)
  /\ UNCHANGED << sf_filename, sf_files, sf_dirs, sf_declined >>
  /\ UNCHANGED << genVars, h_calls, intVars, vars >>

\* KeyboardInterrupt: outside the try on line 276, where it leaves the
\* function; inside it on line 310, where lines 332-334 exit with status 0
SaveInterrupt ==
  /\ sf_pc \in {"prompt", "confirm"}
  /\ sf_error' = "KeyboardInterrupt"
  /\ IF sf_pc = "prompt"
     THEN sf_pc' = "raised" /\ UNCHANGED sf_status
     ELSE sf_pc' = "exited" /\ sf_status' = 0
  /\ UNCHANGED << sf_attempts, sf_filename, sf_files, sf_dirs, sf_result, sf_declined >>
  /\ UNCHANGED << genVars, h_calls, intVars, vars >>

SaveNext ==
  \/ SaveFilename
  \/ SaveConfirm
  \/ SaveEndOfInput
  \/ SaveInterrupt
SaveSpec == SaveInit /\ [][SaveNext]_allVars

\* C20 (as claimed): save_to_file returns True only after the content has
\* been written to the file, and whenever attempts reaches max_attempts the
\* program has been terminated with status 1 instead of the function
\* returning, whatever kind the failed attempts were.
C20_SaveExitsAtMaxAttempts ==
  /\ sf_result = "True" => (sf_pc = "returned" /\ sf_files[sf_filename] = "content")
  /\ sf_attempts >= sf_max_attempts => (sf_pc = "exited" /\ sf_status = 1)

====
